---- MODULE Spec2Model ----
(***************************************************************************)
(* A model of the ask/tell strategies of evosax:                           *)
(*   Open_NES       src/evosax/strategies/open_nes.py                      *)
(*   PEPG_ES        src/evosax/strategies/pepg_es.py                       *)
(*   Persistent_ES  src/evosax/strategies/persistent_es.py                 *)
(*   PSO_ES         src/evosax/strategies/pso_es.py                        *)
(*   SNES           src/evosax/v2/snes.py                                  *)
(*                                                                         *)
(* Numbers.  The code computes in floating point.  The model computes in   *)
(* fixed point: a real r is the integer r * Scale, a product or quotient   *)
(* is rounded toward zero (a rounding that, like IEEE rounding, is         *)
(* monotone and commutes with negation).  Sums and differences are exact   *)
(* in the model; NaN and infinities are not modelled.  Fitness values are  *)
(* plain integers.                                                         *)
(*                                                                         *)
(* Indices.  Rows and dimensions are numbered from 1: row i of the code    *)
(* is row i + 1 of the model.                                              *)
(*                                                                         *)
(* The dict a caller passes.  The strategies keep their state in a Python  *)
(* dict.  `state` is the state value the driver holds (the value the last  *)
(* call returned); `arg` is the content, read after the last call, of the  *)
(* dict object the driver passed to that call.                             *)
(***************************************************************************)
EXTENDS Integers, Sequences, FiniteSets, TLC

VARIABLES
    cfg,      \* the constructor's arguments
    params,   \* the params record the driver passes to every call
    phase,    \* "new", "failed" (the constructor raised), "constructed", "ready"
    state,    \* the state the driver holds
    arg,      \* the dict passed to the last call, as it is after that call
    x,        \* the population the last ask returned (<<>>: none yet)
    op,       \* the last call: "none", "construct", "initialize", "ask", "tell", "tell_raise"
    told,     \* TRUE once a tell has returned
    elite,    \* PEPG: elite_idx of the last call, if it was a tell (else <<>>)
    lastfit,  \* PEPG: the fitness vector of the last call, if it was a tell (else <<>>)
    calls,    \* number of ask/tell calls made
    perts_sum,  \* Persistent_ES, history: the element-wise sum of the perts drawn
                \* by the asks since the last tell that reset (or since initialize)
    perts_last, \* Persistent_ES, history: the perts the last call drew, if it was
                \* an ask (else <<>>)
    workers,  \* SNES: the local EvoState of each of the two workers (<<>>: none)
    plain,    \* SNES: the EvoState of one worker that updates without a reduction
    solo,     \* SNES: the EvoState of one worker of twice the popsize, likewise
    shards,   \* SNES: each worker's batch [x, fitness] (<<>>: none)
    updates,  \* SNES: each worker's EvoUpdate (<<>>: none)
    round     \* SNES: "idle", "ready", "asked", "updated", "applied"

strat == <<cfg, params, phase, state, arg, x, op, told, elite, lastfit, calls,
           perts_sum, perts_last>>
snes == <<workers, plain, solo, shards, updates, round>>
vars == <<strat, snes>>

----------------------------------------------------------------------------
(* Bounds of the model *)

\* fixed-point unit: the real 1.0
Scale == 100
\* popsize is drawn from 1..MaxPopsize
MaxPopsize == 4
\* num_dims is drawn from 1..MaxDims
MaxDims == 2
\* a population matrix has at most MaxCells entries: popsize * num_dims <= MaxCells
MaxCells == 4
\* ask/tell calls per run
MaxCalls == 4
\* fitness values are drawn from 0..MaxFit
MaxFit == 1

----------------------------------------------------------------------------
(* Fixed-point arithmetic *)

Abs(a) == IF a < 0 THEN -a ELSE a
Sgn(a) == IF a < 0 THEN -1 ELSE IF a > 0 THEN 1 ELSE 0
Max(a, b) == IF a >= b THEN a ELSE b
Min(a, b) == IF a <= b THEN a ELSE b

\* n / d rounded toward zero
TruncDiv(n, d) == Sgn(n) * Sgn(d) * (Abs(n) \div Abs(d))
\* a * b of two fixed-point numbers
Mul(a, b) == TruncDiv(a * b, Scale)
\* a / b of two fixed-point numbers
Div(a, b) == TruncDiv(a * Scale, b)

Dims == 1..cfg.num_dims
Rows == 1..cfg.popsize
Half == cfg.popsize \div 2
HalfRows == 1..Half

ZeroVec == [d \in Dims |-> 0]
ZeroMat == [i \in Rows |-> ZeroVec]

\* variant: the second half repeats the first
AntitheticNoFlip(z_plus) ==
    [i \in Rows |-> IF i <= Half THEN z_plus[i] ELSE z_plus[i - Half]]

\* jnp.concatenate([z_plus, -z_plus]): rows 1..Half, then their negations
Antithetic(z_plus) ==
    [i \in Rows |-> IF i <= Half THEN z_plus[i]
                    ELSE [d \in Dims |-> -z_plus[i - Half][d]]]

----------------------------------------------------------------------------
(* Values the driver and the random stream supply *)

OptNames == {"sgd", "adam", "rmsprop", "clipup"}
\* what a caller may pass as opt_name
OptNameArgs == {"adam", "nosuchopt"}
\* elite_ratio as a fraction <<numerator, denominator>>
EliteRatios == {<<1, 10>>, <<1, 2>>, <<1, 1>>}

\* standard-normal draws
ZVals == {-Scale, 0, Scale}
\* uniform draws of the initial mean within [init_min, init_max]
MeanVals == {-Scale, Scale}
FitVals == 0..MaxFit

NoState == [none |-> TRUE]

\* the shapes (popsize, num_dims) within the bounds
Shapes(sizes) == {pn \in sizes \X (1..MaxDims) : pn[1] * pn[2] <= MaxCells}
\* the popsizes of a swarm
SwarmSizes == {1, 2}

\* the constructor arguments a caller may pass
Configs(s) ==
    CASE s = "Open_NES" ->
           {[strategy |-> s, popsize |-> pn[1], num_dims |-> pn[2]]
              : pn \in Shapes(1..MaxPopsize)}
      [] s = "PEPG_ES" ->
           {[strategy |-> s, popsize |-> pn[1], num_dims |-> pn[2],
             elite_ratio |-> e, opt_name |-> o]
              : pn \in Shapes(1..MaxPopsize), e \in EliteRatios, o \in OptNameArgs}
      [] s = "Persistent_ES" ->
           {[strategy |-> s, popsize |-> pn[1], num_dims |-> pn[2], opt_name |-> o]
              : pn \in Shapes(1..MaxPopsize), o \in OptNameArgs}
      [] s = "PSO_ES" ->
           {[strategy |-> s, popsize |-> pn[1], num_dims |-> pn[2]]
              : pn \in Shapes(SwarmSizes)}

\* decay factors in (0,1]: 0.75 and 1.0
Decays == {(3 * Scale) \div 4, Scale}

\* the params records a driver may pass (the defaults of params_strategy /
\* default_params are one choice among them)
ParamSets(s) ==
    CASE s = "Open_NES" ->
           {[sigma_init |-> Scale, sigma_decay |-> sd, sigma_limit |-> sl,
             lrate_init |-> Scale, lrate_decay |-> ld, lrate_limit |-> ll]
              : sd \in Decays, sl \in {2, Scale + 2},
                ld \in Decays, ll \in {0, Scale + 2}}
      [] s = "PEPG_ES" ->
           {[sigma_init |-> Scale, sigma_decay |-> sd, sigma_limit |-> sl,
             sigma_lrate |-> Scale, sigma_max_change |-> Scale \div 2,
             lrate_init |-> Scale, lrate_decay |-> Scale \div 2, lrate_limit |-> 1]
              : sd \in Decays, sl \in {1, Scale + 2}}
      [] s = "Persistent_ES" ->
           {[sigma_init |-> Scale, sigma_decay |-> dl[1], sigma_limit |-> dl[2],
             T |-> tk[1], K |-> tk[2],
             lrate_init |-> Scale, lrate_decay |-> Scale \div 2, lrate_limit |-> 1]
              : dl \in {<<(3 * Scale) \div 4, 1>>, <<Scale, Scale + 2>>},
                tk \in {<<2, 1>>, <<3, 2>>, <<1, 1>>}}
      [] s = "PSO_ES" ->
           {[inertia_coeff |-> (3 * Scale) \div 4, cognitive_coeff |-> (3 * Scale) \div 2,
             social_coeff |-> 2 * Scale]}

InitFor(strategies) ==
    /\ \E s \in strategies :
         /\ cfg \in Configs(s)
         /\ params \in ParamSets(s)
    /\ phase = "new"
    /\ state = NoState
    /\ arg = NoState
    /\ x = <<>>
    /\ op = "none"
    /\ told = FALSE
    /\ elite = <<>>
    /\ lastfit = <<>>
    /\ calls = 0
    /\ perts_sum = <<>>
    /\ perts_last = <<>>
    /\ workers = <<>> /\ plain = NoState /\ solo = NoState
    /\ shards = <<>> /\ updates = <<>>
    /\ round = "idle"

\* the strategies with antithetic sampling
Antithetics == {"Open_NES", "PEPG_ES", "Persistent_ES"}

Init == InitFor(Antithetics)
InitPSO == InitFor({"PSO_ES"})

----------------------------------------------------------------------------
(* Construction *)

\* variant: the parity assert is missing
PopsizeAny(p) == TRUE

\* assert not self.popsize & 1, "Population size must be even"
PopsizeEven(p) == p % 2 = 0

\* assert opt_name in ["sgd", "adam", "rmsprop", "clipup"]
OptNameKnown(o) == o \in OptNames

\* int(self.popsize / 2 * self.elite_ratio), for ratio = <<num, den>> >= 0
ElitePopsize(p, ratio) == (p * ratio[1]) \div (2 * ratio[2])

\* TRUE iff __init__ returns; FALSE iff one of its asserts raises
ConstructorAccepts(c) ==
    CASE c.strategy = "Open_NES" -> PopsizeEven(c.popsize)
      [] c.strategy = "PEPG_ES" -> PopsizeEven(c.popsize) /\ OptNameKnown(c.opt_name)
      [] c.strategy = "Persistent_ES" -> PopsizeEven(c.popsize) /\ OptNameKnown(c.opt_name)
      [] c.strategy = "PSO_ES" -> TRUE

Construct ==
    /\ phase = "new"
    /\ phase' = IF ConstructorAccepts(cfg) THEN "constructed" ELSE "failed"
    /\ op' = "construct"
    /\ UNCHANGED <<cfg, params, state, arg, x, told, elite, lastfit, calls>>
    /\ UNCHANGED <<perts_sum, perts_last>>
    /\ UNCHANGED snes

----------------------------------------------------------------------------
(* The gradient optimizer (evosax/utils, not among the sources) *)

\* optimizer.initialize(params): the optimizer's own fields
OptInitialize(p) == [lrate |-> p.lrate_init]

\* optimizer.step(grad, state, params) / adam_step(state, params, grad): a new
\* state whose mean is moved by the rule's delta.  The rules are not among the
\* sources, so the new mean is any vector over MeanVals and the gradient the
\* strategies hand over is not computed
OptStepResults(st) ==
    {[st EXCEPT !.mean = m] : m \in [Dims -> MeanVals]}

\* optimizer.update(state, params): lrate *= decay; lrate = max(lrate, floor)
OptUpdate(st, p) ==
    [st EXCEPT !.lrate = Max(Mul(st.lrate, p.lrate_decay), p.lrate_limit)]

----------------------------------------------------------------------------
(* initialize *)

\* 20e10, in the fitness unit of the model (1e10)
InitFitness == 20

InitialStates ==
    CASE cfg.strategy = "Open_NES" ->
           {[mean |-> m, sigma |-> params.sigma_init, lrate |-> params.lrate_init]
              : m \in [Dims -> MeanVals]}
      [] cfg.strategy = "PEPG_ES" ->
           {[mean |-> m, fitness |-> [i \in Rows |-> -InitFitness],
             lrate |-> OptInitialize(params).lrate,
             sigma |-> [d \in Dims |-> params.sigma_init]]
              : m \in [Dims -> MeanVals]}
      [] cfg.strategy = "Persistent_ES" ->
           {[mean |-> m, pert_accum |-> ZeroMat, sigma |-> params.sigma_init,
             inner_step_counter |-> 0, lrate |-> OptInitialize(params).lrate]
              : m \in [Dims -> MeanVals]}
      [] cfg.strategy = "PSO_ES" ->
           {[archive |-> a, fitness |-> [i \in Rows |-> InitFitness],
             velocity |-> ZeroMat, best_archive |-> a,
             best_fitness |-> [i \in Rows |-> InitFitness]]
              : a \in [Rows -> [Dims -> MeanVals]]}

Initialize ==
    /\ phase = "constructed"
    /\ phase' = "ready"
    /\ state' \in InitialStates
    /\ op' = "initialize"
    /\ perts_sum' = IF cfg.strategy = "Persistent_ES" THEN ZeroMat ELSE <<>>
    /\ UNCHANGED <<cfg, params, arg, x, told, elite, lastfit, calls, perts_last>>
    /\ UNCHANGED snes


----------------------------------------------------------------------------
(* ask *)

\* jax.random.normal(rng, (popsize / 2, num_dims))
HalfDraws == [HalfRows -> [Dims -> ZVals]]

\* Open_NES.ask_strategy: x = mean + sigma * z
AskOpenNES(z_plus) ==
    LET z == Antithetic(z_plus)
    IN  /\ x' = [i \in Rows |-> [d \in Dims |-> state.mean[d] + Mul(state.sigma, z[i][d])]]
        /\ state' = state
        /\ arg' = state
        /\ UNCHANGED <<perts_sum, perts_last>>

\* PEPG_ES.ask_strategy: x = mean + z * sigma (a vector)
AskPEPG(z_plus) ==
    LET z == Antithetic(z_plus)
    IN  /\ x' = [i \in Rows |-> [d \in Dims |-> state.mean[d] + Mul(z[i][d], state.sigma[d])]]
        /\ state' = state
        /\ arg' = state
        /\ UNCHANGED <<perts_sum, perts_last>>

\* variant: the accumulator is overwritten with this call's perts
OverwritePerts(st, perts) == [st EXCEPT !.pert_accum = perts]

\* the dict ask_strategy of Persistent_ES leaves behind:
\* state["pert_accum"] += perts, on the dict it was passed
AccumulatePerts(st, perts) ==
    [st EXCEPT !.pert_accum =
        [i \in Rows |-> [d \in Dims |-> st.pert_accum[i][d] + perts[i][d]]]]

\* Persistent_ES.ask_strategy
AskPersistent(z_plus) ==
    LET pos_perts == [i \in HalfRows |-> [d \in Dims |-> Mul(z_plus[i][d], state.sigma)]]
        perts == Antithetic(pos_perts)
        after == AccumulatePerts(state, perts)
    IN  /\ x' = [i \in Rows |-> [d \in Dims |-> state.mean[d] + perts[i][d]]]
        /\ state' = after
        \* the returned state is the dict that was passed in
        /\ arg' = after
        /\ perts_sum' = [i \in Rows |-> [d \in Dims |-> perts_sum[i][d] + perts[i][d]]]
        /\ perts_last' = perts

\* jax.random.uniform(rng, (2,)) of every member: r1, r2 in [0, 1)
RVals == {0, Scale \div 4}
MemberDraws == [Rows -> [1..2 -> RVals]]

\* jnp.argmin: the first index of a least value
ArgMin(f) == CHOOSE i \in DOMAIN f :
                 /\ \A j \in DOMAIN f : f[i] <= f[j]
                 /\ \A j \in DOMAIN f : f[j] = f[i] => i <= j

\* single_member_velocity
single_member_velocity(r, member_id, st, p) ==
    LET global_best == st.best_archive[ArgMin(st.best_fitness)]
    IN  [d \in Dims |->
            Mul(p.inertia_coeff, st.velocity[member_id][d])
          + Mul(Mul(p.cognitive_coeff, r[1]),
                st.best_archive[member_id][d] - st.archive[member_id][d])
          + Mul(Mul(p.social_coeff, r[2]),
                global_best[d] - st.archive[member_id][d])]

\* PSO_ES.ask, under jax.jit: the body runs on a dict rebuilt from the
\* argument's leaves, the caller's dict is not the one it assigns into
AskPSO(r) ==
    LET vel == [i \in Rows |-> single_member_velocity(r[i], i, state, params)]
    IN  /\ x' = [i \in Rows |-> [d \in Dims |-> state.archive[i][d] + vel[i][d]]]
        /\ state' = [state EXCEPT !.velocity = vel]
        /\ arg' = state
        /\ UNCHANGED <<perts_sum, perts_last>>

Ask ==
    /\ phase = "ready"
    /\ calls < MaxCalls
    /\ CASE cfg.strategy = "Open_NES" -> \E z \in HalfDraws : AskOpenNES(z)
         [] cfg.strategy = "PEPG_ES" -> \E z \in HalfDraws : AskPEPG(z)
         [] cfg.strategy = "Persistent_ES" -> \E z \in HalfDraws : AskPersistent(z)
         [] cfg.strategy = "PSO_ES" -> \E r \in MemberDraws : AskPSO(r)
    /\ op' = "ask"
    /\ calls' = calls + 1
    /\ elite' = <<>>
    /\ lastfit' = <<>>
    /\ UNCHANGED <<cfg, params, phase, told>>
    /\ UNCHANGED snes


----------------------------------------------------------------------------
(* tell *)

FitnessVecs == [Rows -> FitVals]

\* variant: the decay without the clamp
DecayNoFloor(v, decay, limit) == Mul(v, decay)

\* variant: the value is divided by the decay factor
DecayGrow(v, decay, limit) == Max(Div(v, decay), limit)

\* v *= decay; v = jnp.maximum(v, limit)
DecayToFloor(v, decay, limit) == Max(Mul(v, decay), limit)

\* Open_NES.tell_strategy, after adam_step returned st
DecayOpenNES(st, p) ==
    [st EXCEPT !.lrate = DecayToFloor(st.lrate, p.lrate_decay, p.lrate_limit),
               !.sigma = DecayToFloor(st.sigma, p.sigma_decay, p.sigma_limit)]

\* (the fitness feeds only the gradient handed to adam_step)
TellOpenNES ==
    /\ \E st \in OptStepResults(state) : state' = DecayOpenNES(st, params)
    /\ arg' = state
    /\ UNCHANGED <<elite, lastfit>>

\* variant: the reset waits until the counter exceeds T
ResetDueStrict(counter, T) == counter > T

\* reset = state["inner_step_counter"] >= params["T"]
ResetDue(counter, T) == counter >= T

\* Persistent_ES.tell_strategy, after optimizer.step and optimizer.update returned st
StepPersistent(st, p) ==
    LET counter == st.inner_step_counter + p.K
        reset == ResetDue(counter, p.T)
    IN  [st EXCEPT !.inner_step_counter = IF reset THEN 0 ELSE counter,
                   !.sigma = DecayToFloor(st.sigma, p.sigma_decay, p.sigma_limit),
                   !.pert_accum = IF reset THEN ZeroMat ELSE st.pert_accum]

\* (the fitness feeds only the gradient handed to optimizer.step)
TellPersistent ==
    /\ \E st \in OptStepResults(state) :
           state' = StepPersistent(OptUpdate(st, params), params)
    /\ arg' = state
    /\ UNCHANGED <<elite, lastfit>>

\* variant: a tie does not replace
ReplaceStrict(fit, best) == fit < best

\* replace = fitness <= state["best_fitness"], of one member
Replace(fit, best) == fit <= best

BoolInt(b) == IF b THEN 1 ELSE 0

\* PSO_ES.tell, under jax.jit
TellPSO(fitness) ==
    LET replace == [i \in Rows |-> BoolInt(Replace(fitness[i], state.best_fitness[i]))]
    IN  /\ state' = [state EXCEPT
               !.fitness = fitness,
               !.archive = x,
               !.best_archive = [i \in Rows |-> [d \in Dims |->
                    replace[i] * x[i][d] + (1 - replace[i]) * state.best_archive[i][d]]],
               !.best_fitness = [i \in Rows |->
                    replace[i] * fitness[i] + (1 - replace[i]) * state.best_fitness[i]]]
        /\ arg' = state
        /\ UNCHANGED <<elite, lastfit>>


\* sum of f[1..n]
RECURSIVE SumTo(_, _)
SumTo(f, n) == IF n = 0 THEN 0 ELSE f[n] + SumTo(f, n - 1)

\* fitness[: popsize / 2] and fitness[popsize / 2 :]
Fit1(fitness) == [i \in HalfRows |-> fitness[i]]
Fit2(fitness) == [i \in HalfRows |-> fitness[i + Half]]

\* key.argsort(): the indices by ascending key, equal keys in index order
ArgSort(key) ==
    LET n == Len(key)
        rank(i) == Cardinality({j \in 1..n : key[j] < key[i] \/ (key[j] = key[i] /\ j < i)})
    IN  [k \in 1..n |-> CHOOSE i \in 1..n : rank(i) = k - 1]

\* variant: the pairs are ranked by the larger of their two fitness values
EliteIdxByMax(fitness, elite_popsize) ==
    LET key == [i \in HalfRows |-> Max(fitness[i], fitness[i + Half])]
    IN  SubSeq(ArgSort(key), 1, Min(elite_popsize, Half))

\* jnp.minimum(fit_1, fit_2).argsort()[: self.elite_popsize]
EliteIdx(fitness, elite_popsize) ==
    LET key == [i \in HalfRows |-> Min(fitness[i], fitness[i + Half])]
    IN  SubSeq(ArgSort(key), 1, Min(elite_popsize, Half))

\* the sigma vector PEPG_ES.tell_strategy computes (lines 85-103)
SigmaPEPG(xs, fitness, st, p, elite_idx, elite_popsize) ==
    LET fit_1 == Fit1(fitness)
        fit_2 == Fit2(fitness)
        noise_1 == [i \in HalfRows |-> [d \in Dims |->
                        Div(xs[i][d] - st.mean[d], st.sigma[d])]]
        elite_sum == SumTo([k \in 1..Len(elite_idx) |->
                        fit_1[elite_idx[k]] + fit_2[elite_idx[k]]], Len(elite_idx))
        \* jnp.mean(fitness_elite)
        elite_mean == TruncDiv(elite_sum * Scale, 2 * Len(elite_idx))
        rS == [i \in HalfRows |-> TruncDiv((fit_1[i] + fit_2[i]) * Scale, 2) - elite_mean]
        S(i, d) == Div(Mul(noise_1[i][d], noise_1[i][d]) - Mul(st.sigma[d], st.sigma[d]),
                       st.sigma[d])
        delta_sigma(d) == TruncDiv(SumTo([i \in HalfRows |-> Mul(rS[i], S(i, d))], Half),
                                   elite_popsize)
        clipped(d) == Max(Min(Mul(p.sigma_lrate, delta_sigma(d)),
                              Mul(p.sigma_max_change, st.sigma[d])),
                          -Mul(p.sigma_max_change, st.sigma[d]))
    IN  [d \in Dims |-> DecayToFloor(st.sigma[d] - clipped(d), p.sigma_decay, p.sigma_limit)]

\* theta_grad = 1.0 / (self.elite_popsize) * fit_diff_noise raises
\* ZeroDivisionError when elite_popsize is 0
TellPEPGRaises == ElitePopsize(cfg.popsize, cfg.elite_ratio) = 0

\* PEPG_ES.tell_strategy
TellPEPG(fitness) ==
    LET elite_popsize == ElitePopsize(cfg.popsize, cfg.elite_ratio)
        elite_idx == EliteIdx(fitness, elite_popsize)
    IN  /\ elite' = elite_idx
        /\ lastfit' = fitness
        /\ IF TellPEPGRaises
           THEN UNCHANGED <<state, arg>>
           ELSE /\ \E st \in OptStepResults(state) :
                      state' = [OptUpdate(st, params) EXCEPT
                          !.sigma = SigmaPEPG(x, fitness, state, params, elite_idx, elite_popsize)]
                /\ arg' = state

\* fitness values a PSO driver reports: also values at and above 20e10
PSOFitnessVecs == [Rows -> FitVals \cup {InitFitness, InitFitness + 1}]

\* a tell that returns
Tell ==
    /\ phase = "ready"
    /\ calls < MaxCalls
    /\ x # <<>>
    /\ ~(cfg.strategy = "PEPG_ES" /\ TellPEPGRaises)
    /\ CASE cfg.strategy = "Open_NES" -> TellOpenNES
         [] cfg.strategy = "PEPG_ES" -> \E f \in FitnessVecs : TellPEPG(f)
         [] cfg.strategy = "Persistent_ES" -> TellPersistent
         [] cfg.strategy = "PSO_ES" -> \E f \in PSOFitnessVecs : TellPSO(f)
    /\ op' = "tell"
    /\ told' = TRUE
    /\ x' = <<>>
    /\ calls' = calls + 1
    \* the history starts again at a tell that reset
    /\ perts_sum' = IF cfg.strategy = "Persistent_ES" /\ state'.inner_step_counter = 0
                    THEN ZeroMat ELSE perts_sum
    /\ perts_last' = <<>>
    /\ UNCHANGED <<cfg, params, phase>>
    /\ UNCHANGED snes

\* a tell that raises (PEPG_ES with elite_popsize = 0)
TellRaise ==
    /\ phase = "ready"
    /\ calls < MaxCalls
    /\ x # <<>>
    /\ cfg.strategy = "PEPG_ES" /\ TellPEPGRaises
    /\ \E f \in FitnessVecs : TellPEPG(f)
    /\ op' = "tell_raise"
    /\ calls' = calls + 1
    /\ UNCHANGED <<cfg, params, phase, told, x, perts_sum, perts_last>>
    /\ UNCHANGED snes

Next == Construct \/ Initialize \/ Ask \/ Tell \/ TellRaise

Spec == Init /\ [][Next]_vars

\* a PSO_ES run: no tell of PSO_ES raises
NextPSO == Construct \/ Initialize \/ Ask \/ Tell

SpecPSO == InitPSO /\ [][NextPSO]_vars

----------------------------------------------------------------------------
(* SNES on two workers, and on one *)

\* natural logarithms of 1..12, in thousandths
LnMilli == <<0, 693, 1099, 1386, 1609, 1792, 1946, 2079, 2197, 2303, 2398, 2485>>
\* jnp.log(n) of a whole number n
Ln(n) == (LnMilli[n] * Scale) \div 1000

\* jnp.exp(e), by its Taylor polynomial of degree 4
Exp(e) ==
    Scale + Mul(e, Scale + TruncDiv(Mul(e, Scale + TruncDiv(Mul(e, Scale + TruncDiv(e, 4)), 3)), 2))

\* get_snes_weights(popsize), use_baseline = True
get_snes_weights(popsize) ==
    LET \* log(popsize / 2 + 1) - log(i)
        weight(i) == Max(0, (Ln(popsize + 2) - Ln(2)) - Ln(i))
        total == SumTo([i \in 1..popsize |-> weight(i)], popsize)
    IN  [i \in 1..popsize |-> Div(weight(i), total) - TruncDiv(Scale, popsize)]

\* SNES.initialize_strategy with temperature = 0, the mean drawn being m
SnesInitialState(popsize, m, p) ==
    [mean |-> m, sigma |-> [d \in Dims |-> p.sigma_init],
     weights |-> get_snes_weights(popsize)]

\* SNES.ask_strategy: x = mean + noise * sigma
SnesAskX(nz, st) ==
    [i \in DOMAIN nz |-> [d \in Dims |-> st.mean[d] + Mul(nz[i][d], st.sigma[d])]]

\* SNES.get_update_strategy
get_update_strategy(xs, fitness, st, p) ==
    LET n == Len(xs)
        s == [i \in 1..n |-> [d \in Dims |-> Div(xs[i][d] - st.mean[d], st.sigma[d])]]
        ranks == ArgSort(fitness)
        sorted_noise == [k \in 1..n |-> s[ranks[k]]]
        grad_mean(d) == SumTo([k \in 1..n |-> Mul(st.weights[k], sorted_noise[k][d])], n)
        grad_sigma(d) ==
            SumTo([k \in 1..n |->
                     Mul(st.weights[k], Mul(sorted_noise[k][d], sorted_noise[k][d]) - Scale)], n)
    IN  [delta_mean |-> [d \in Dims |-> Mul(Mul(p.lrate_mean, st.sigma[d]), grad_mean(d))],
         delta_sigma |-> [d \in Dims |-> Exp(Mul(TruncDiv(p.lrate_sigma, 2), grad_sigma(d)))]]

\* variant: the reduction sums over the devices
PSum(vs) == [d \in Dims |-> SumTo([w \in 1..Len(vs) |-> vs[w][d]], Len(vs))]

\* jax.lax.pmean(v, "device") over the values vs of the devices
PMean(vs) == [d \in Dims |-> TruncDiv(SumTo([w \in 1..Len(vs) |-> vs[w][d]], Len(vs)), Len(vs))]

\* SNES.apply_update_strategy on one device, ups being the updates of all devices
apply_update_strategy(ups, st) ==
    LET delta_mean == PMean([w \in 1..Len(ups) |-> ups[w].delta_mean])
        delta_sigma == PMean([w \in 1..Len(ups) |-> ups[w].delta_sigma])
    IN  [st EXCEPT !.mean = [d \in Dims |-> st.mean[d] + delta_mean[d]],
                   !.sigma = [d \in Dims |-> Mul(st.sigma[d], delta_sigma[d])]]

\* popsize of each worker
SnesPopsize == 2
Workers == 1..2
\* standard-normal draws of a worker
SnesZVals == {-Scale, Scale \div 2}
SnesRows == 1..SnesPopsize

\* the two shards, one after the other
Pooled(f) == [i \in 1..(2 * SnesPopsize) |->
                 IF i <= SnesPopsize THEN f[1][i] ELSE f[2][i - SnesPopsize]]

SnesParamSets ==
    {[lrate_mean |-> Scale, lrate_sigma |-> ls, sigma_init |-> Scale, temperature |-> 0]
       : ls \in {(3 * Scale) \div 5}}

InitSNES ==
    /\ cfg \in {[strategy |-> "SNES", popsize |-> pn[1], num_dims |-> pn[2]]
                 : pn \in Shapes({SnesPopsize})}
    /\ params \in SnesParamSets
    /\ phase = "constructed"
    /\ state = NoState /\ arg = NoState /\ x = <<>> /\ op = "none" /\ told = FALSE
    /\ elite = <<>> /\ lastfit = <<>> /\ calls = 0
    /\ perts_sum = <<>> /\ perts_last = <<>>
    /\ workers = <<>> /\ plain = NoState /\ solo = NoState
    /\ shards = <<>> /\ updates = <<>>
    /\ round = "idle"

\* every worker starts from the same mean and sigma
SnesInitialize ==
    /\ phase = "constructed"
    /\ phase' = "ready"
    \* uniform in [init_min, init_max] = [0.0, 0.0], the defaults of EvoParams
    /\ LET m == [d \in Dims |-> 0]
       IN  /\ workers' = [w \in Workers |-> SnesInitialState(SnesPopsize, m, params)]
           /\ plain' = SnesInitialState(SnesPopsize, m, params)
           /\ solo' = SnesInitialState(2 * SnesPopsize, m, params)
    /\ round' = "ready"
    /\ UNCHANGED <<cfg, params, state, arg, x, op, told, elite, lastfit, calls,
                 perts_sum, perts_last, shards, updates>>

\* each worker asks with its own random stream and has its candidates evaluated
SnesAsk ==
    /\ round = "ready"
    /\ \E nz \in [Workers -> [SnesRows -> [Dims -> SnesZVals]]] :
       \E f \in [Workers -> [SnesRows -> FitVals]] :
          shards' = [w \in Workers |-> [x |-> SnesAskX(nz[w], workers[w]), fitness |-> f[w]]]
    /\ round' = "asked"
    /\ UNCHANGED <<strat, workers, plain, solo, updates>>

\* each worker computes its local update
SnesGetUpdate ==
    /\ round = "asked"
    /\ updates' = [w \in Workers |->
                      get_update_strategy(shards[w].x, shards[w].fitness, workers[w], params)]
    /\ round' = "updated"
    /\ UNCHANGED <<strat, workers, plain, solo, shards>>

\* the workers apply the reduced update; the single workers apply their own:
\* plain the update of worker 1's batch, solo the update of the pooled batch
SnesApply ==
    /\ round = "updated"
    /\ workers' = [w \in Workers |-> apply_update_strategy(updates, workers[w])]
    /\ plain' = apply_update_strategy(
                   <<get_update_strategy(shards[1].x, shards[1].fitness, plain, params)>>, plain)
    /\ solo' = apply_update_strategy(
                   <<get_update_strategy(Pooled([w \in Workers |-> shards[w].x]),
                                         Pooled([w \in Workers |-> shards[w].fitness]),
                                         solo, params)>>, solo)
    /\ round' = "applied"
    /\ UNCHANGED <<strat, shards, updates>>

NextSNES == SnesInitialize \/ SnesAsk \/ SnesGetUpdate \/ SnesApply

SpecSNES == InitSNES /\ [][NextSNES]_vars

----------------------------------------------------------------------------
(* Properties *)

\* the step is an ask or tell call (one that returned or raised)
CallStep == calls' = calls + 1
\* the step is a tell that returned
TellStep == CallStep /\ op' = "tell"

\* C1: in Persistent ES a tell resets inner_step_counter and every entry of
\* pert_accum to 0 if and only if the counter before the tell plus K is >= T;
\* every other tell adds K to the counter and leaves pert_accum as it was.
C1_ResetExactlyAtT ==
    [][(cfg.strategy = "Persistent_ES" /\ TellStep) =>
         LET sum == state.inner_step_counter + params.K
         IN  IF sum >= params.T
             THEN /\ state'.inner_step_counter = 0
                  /\ \A i \in Rows : \A d \in Dims : state'.pert_accum[i][d] = 0
             ELSE /\ state'.inner_step_counter = sum
                  /\ state'.pert_accum = state.pert_accum]_vars

\* a tell has just reset a counter that an earlier tell had advanced, and an
\* accumulator that was not zero
C1_Witness ==
    /\ cfg.strategy = "Persistent_ES" /\ op = "tell"
    /\ arg.inner_step_counter > 0
    /\ arg.inner_step_counter + params.K >= params.T
    /\ \E i \in Rows : \E d \in Dims : arg.pert_accum[i][d] # 0
    /\ state.inner_step_counter = 0

\* C2: in PSO, for every particle i, a tell never raises best_fitness[i]; it
\* overwrites best_archive[i] with the told row i (and best_fitness[i] with the
\* told fitness) exactly when the told fitness[i] is <= the stored best_fitness[i],
\* and leaves both unchanged otherwise.
C2_PersonalBestMonotone ==
    [][(cfg.strategy = "PSO_ES" /\ TellStep) =>
         \A i \in Rows :
            LET f == state'.fitness[i]
            IN  /\ state'.best_fitness[i] <= state.best_fitness[i]
                /\ IF f <= state.best_fitness[i]
                   THEN /\ state'.best_archive[i] = x[i]
                        /\ state'.best_fitness[i] = f
                   ELSE /\ state'.best_archive[i] = state.best_archive[i]
                        /\ state'.best_fitness[i] = state.best_fitness[i]]_vars

\* a tell has overwritten one particle's best on a tie and kept another's
C2_Witness ==
    /\ cfg.strategy = "PSO_ES" /\ op = "tell"
    /\ \E i \in Rows :
          /\ state.fitness[i] = arg.best_fitness[i]
          /\ state.best_archive[i] # arg.best_archive[i]
          /\ state.best_archive[i] = state.archive[i]
    /\ \E j \in Rows :
          /\ state.fitness[j] > arg.best_fitness[j]
          /\ state.archive[j] # state.best_archive[j]

\* C3: once a tell has returned, sigma is >= sigma_limit in Open NES and
\* Persistent ES, every component of sigma is >= sigma_limit in PEPG, and lrate is
\* >= lrate_limit in Open NES.
C3_FloorsHold ==
    told =>
      /\ cfg.strategy = "Open_NES" =>
            state.sigma >= params.sigma_limit /\ state.lrate >= params.lrate_limit
      /\ cfg.strategy = "Persistent_ES" => state.sigma >= params.sigma_limit
      /\ cfg.strategy = "PEPG_ES" => \A d \in Dims : state.sigma[d] >= params.sigma_limit

\* a PEPG tell whose adaptive adjustment lowered sigma and whose result the
\* clamp holds at the floor, after an earlier tell had raised sigma
C3_Witness ==
    /\ cfg.strategy = "PEPG_ES" /\ op = "tell"
    /\ \E d \in Dims :
          /\ arg.sigma[d] > params.sigma_init
          /\ state.sigma[d] < arg.sigma[d]

\* C4 as claimed: in Open NES (sigma, lrate) and Persistent ES (sigma) the value
\* after every tell is <= the value before it.
C4_Original ==
    [][TellStep =>
         /\ cfg.strategy = "Open_NES" =>
               state'.sigma <= state.sigma /\ state'.lrate <= state.lrate
         /\ cfg.strategy = "Persistent_ES" => state'.sigma <= state.sigma]_vars

\* C4 as amended: in Open NES (sigma, lrate) and Persistent ES (sigma) the value
\* after a tell is <= the value before it whenever the value before is at or
\* above its floor, which is so in every tell after the first.
C4_NonIncreasingAboveFloor ==
    [][TellStep =>
         /\ cfg.strategy = "Open_NES" =>
               /\ (told \/ state.sigma >= params.sigma_limit) => state'.sigma <= state.sigma
               /\ (told \/ state.lrate >= params.lrate_limit) => state'.lrate <= state.lrate
         /\ cfg.strategy = "Persistent_ES" =>
               ((told \/ state.sigma >= params.sigma_limit) => state'.sigma <= state.sigma)]_vars

\* an Open NES tell has lowered a sigma and an lrate that were above their floors
C4_Witness ==
    /\ cfg.strategy = "Open_NES" /\ op = "tell"
    /\ arg.sigma > params.sigma_limit /\ state.sigma < arg.sigma
    /\ arg.lrate > params.lrate_limit /\ state.lrate < arg.lrate

\* C5: in PEPG the elite of a tell has exactly floor(popsize/2 * elite_ratio)
\* distinct pair indices, and no pair outside it has a strictly smaller
\* min(fit_1, fit_2) than a pair inside it.
C5_EliteLowestMins ==
    (cfg.strategy = "PEPG_ES" /\ lastfit # <<>>) =>
       LET n == Len(elite)
           num == cfg.elite_ratio[1]
           den == cfg.elite_ratio[2]
           pairmin(i) == Min(lastfit[i], lastfit[i + Half])
           chosen == {elite[k] : k \in 1..n}
       IN  /\ 2 * den * n <= cfg.popsize * num
           /\ cfg.popsize * num < 2 * den * (n + 1)
           /\ chosen \subseteq HalfRows
           /\ Cardinality(chosen) = n
           /\ \A i \in chosen : \A j \in HalfRows \ chosen : pairmin(i) <= pairmin(j)

\* a tell has chosen the second of two pairs, whose min is the smaller
C5_Witness ==
    /\ cfg.strategy = "PEPG_ES" /\ op = "tell"
    /\ Half = 2 /\ elite = <<2>>
    /\ Min(lastfit[2], lastfit[4]) < Min(lastfit[1], lastfit[3])

\* C6 as claimed: with elite_popsize = 0 a PEPG tell has a defined outcome: it
\* returns, and does not divide by elite_popsize.
C6_Original ==
    (cfg.strategy = "PEPG_ES" /\ ElitePopsize(cfg.popsize, cfg.elite_ratio) = 0) =>
        op # "tell_raise"

\* C7 as claimed: after any ask or tell the dict the caller passed in has the
\* content it had before the call.
C7_Original == [][CallStep => arg' = state]_vars

\* C8: a strategy with antithetic sampling and an odd popsize, or PEPG or
\* Persistent ES with an optimizer name outside {sgd, adam, rmsprop, clipup}, is
\* never constructed: initialize, ask and tell are never called on it.
C8_RejectedAtConstruction ==
    LET odd == cfg.strategy \in Antithetics /\ cfg.popsize % 2 = 1
        unknown == /\ cfg.strategy \in {"PEPG_ES", "Persistent_ES"}
                   /\ cfg.opt_name \notin {"sgd", "adam", "rmsprop", "clipup"}
    IN  (odd \/ unknown) =>
           /\ phase \in {"new", "failed"}
           /\ op \in {"none", "construct"}
           /\ state = NoState
           /\ calls = 0

\* the constructor has refused an odd popsize
C8_Witness ==
    /\ phase = "failed" /\ op = "construct"
    /\ cfg.strategy = "Open_NES" /\ cfg.popsize % 2 = 1

\* the noise the population of the last ask implies, as tell reconstructs it
ImpliedNoise(i, d) ==
    CASE cfg.strategy = "Open_NES" -> Div(x[i][d] - state.mean[d], state.sigma)
      [] cfg.strategy = "PEPG_ES" -> Div(x[i][d] - state.mean[d], state.sigma[d])
      [] cfg.strategy = "Persistent_ES" -> x[i][d] - state.mean[d]

\* C9: in Open NES, PEPG and Persistent ES the noise implied by the population
\* an ask returned is mirrored (row i + P/2 is the negation of row i), and its
\* sum over the population is 0 in every dimension.
C9_NoiseMirrored ==
    (cfg.strategy \in Antithetics /\ x # <<>>) =>
       \A d \in Dims :
          /\ \A i \in HalfRows : ImpliedNoise(i + Half, d) = -ImpliedNoise(i, d)
          /\ SumTo([i \in Rows |-> ImpliedNoise(i, d)], cfg.popsize) = 0

\* an ask has returned two pairs of rows with noise of opposite signs
C9_Witness ==
    /\ cfg.strategy = "PEPG_ES" /\ op = "ask" /\ Half = 2
    /\ \E d \in Dims : ImpliedNoise(1, d) > 0 /\ ImpliedNoise(2, d) < 0

\* the two workers' shards carry the same fitness vector
FitnessEquivalent == shards # <<>> /\ shards[1].fitness = shards[2].fitness
\* the two workers' shards are the same batch
SameBatch == shards # <<>> /\ shards[1] = shards[2]
\* the workers have applied an update
Applied == round = "applied"

\* equal up to the rounding of the model's fixed-point arithmetic (a tenth)
Close(a, b) == \A d \in Dims : Abs(a[d] - b[d]) <= Scale \div 10

\* C10 as claimed: two SNES workers with identical local states and
\* fitness-equivalent shards end, after the mean-reducing apply_update, with the
\* mean and sigma of one worker that runs get_update on the pooled batch and
\* applies it without a reduction (identical: up to the model's rounding).
C10_Original ==
    (Applied /\ FitnessEquivalent) =>
        \A w \in Workers : Close(workers[w].mean, solo.mean) /\ Close(workers[w].sigma, solo.sigma)

\* C10 as amended: after the mean-reducing apply_update the two workers hold the
\* same mean and sigma, and when their shards are the same batch these are the
\* mean and sigma of one worker that runs get_update on that batch and applies
\* it without a reduction.
C10_ReductionOfEqualUpdates ==
    Applied =>
       /\ workers[1].mean = workers[2].mean /\ workers[1].sigma = workers[2].sigma
       /\ SameBatch =>
             \A w \in Workers : workers[w].mean = plain.mean /\ workers[w].sigma = plain.sigma

\* two workers with the same batch have applied an update that moved both the
\* mean and sigma
C10_Witness ==
    /\ Applied /\ SameBatch
    /\ \E d \in Dims : updates[1].delta_mean[d] # 0 /\ updates[1].delta_sigma[d] # Scale
    /\ \E d \in Dims : workers[1].sigma[d] # params.sigma_init

\* C11: in Persistent ES every ask adds the perts it draws to pert_accum and
\* returns mean + the perts of that call alone; so in every state after
\* initialize pert_accum is the element-wise sum of the perts drawn by all asks
\* since the last tell that reset (since initialize, if none did), however many
\* asks lie between two tells, and after an ask x is mean + that ask's perts.
C11_AccumIsSumSinceReset ==
    (cfg.strategy = "Persistent_ES" /\ phase = "ready") =>
        /\ state.pert_accum = perts_sum
        /\ op = "ask" =>
              x = [i \in Rows |-> [d \in Dims |-> state.mean[d] + perts_last[i][d]]]

\* an ask has just added perts that are not zero to an accumulator that an
\* earlier ask had filled and that the tell in between did not reset
C11_Witness ==
    /\ cfg.strategy = "Persistent_ES" /\ op = "ask" /\ told
    /\ state.inner_step_counter > 0
    /\ \E i \in Rows : \E d \in Dims :
          /\ perts_last[i][d] # 0
          /\ state.pert_accum[i][d] # perts_last[i][d]
          /\ state.pert_accum[i][d] # 0

====
